---- MODULE Spec2Model ----
(***************************************************************************)
(* Model of app.py: a Flask webhook whose handler threads submit queries   *)
(* to one background asyncio loop that owns the NotebookLM client.         *)
(*                                                                         *)
(* Python values are modelled as strings; None is the marker below.  The   *)
(* user-visible texts (which are Chinese in the source) are named by       *)
(* ASCII tags; a reply text is built with \o exactly where the source      *)
(* builds it with an f-string.  A user text is a sequence of characters.   *)
(***************************************************************************)
EXTENDS Integers, Sequences, FiniteSets, TLC

VARIABLES
    builtinTimeout,     \* build: concurrent.futures.TimeoutError is builtins.TimeoutError
    initPc,             \* position of init_notebook_client
    initFailed,         \* the except branch of init_notebook_client was taken
    initRuns,           \* number of times init_notebook_client was started
    global_client,
    global_source_ids,
    kaPc,               \* position of the keep_alive task
    kaCycles,           \* completed sleeps of keep_alive
    refreshCalls,       \* calls of global_client.refresh_auth()
    refreshFails,       \* consecutive failed refresh_auth calls
    hPc,                \* per message: position of callback / handle_message
    user_msg,           \* per message: event.message.text.strip()
    elapsed,            \* per message: seconds spent in future.result
    fut,                \* per message: state of the concurrent future
    futResult,          \* per message: value the coroutine returned
    askLog,             \* per message: the chat.ask calls made for it, in order
    answer,             \* per message: what future.result gave the handler
    replies,            \* per message: the reply_message calls, in order
    cbResult            \* per message: the HTTP response of callback

vars == << builtinTimeout, initPc, initFailed, initRuns, global_client,
           global_source_ids, kaPc, kaCycles, refreshCalls, refreshFails,
           hPc, user_msg, elapsed, fut, futResult, askLog, answer, replies,
           cbResult >>

sessionVars == << initPc, initFailed, initRuns, global_client, global_source_ids >>
kaVars == << kaPc, kaCycles, refreshCalls, refreshFails >>
futVars == << fut, futResult, askLog >>
handlerVars == << hPc, user_msg, elapsed, answer, replies, cbResult >>

(***************************************************************************)
(* Bounds of the model.                                                    *)
(***************************************************************************)
NMsgs == 2
MaxCycles == 2

Msgs == 1..NMsgs

(***************************************************************************)
(* Values and texts of the program.                                        *)
(***************************************************************************)
None == "None"
\* None where the other values are lists (no source id is "None")
NoneList == <<"None">>
CLIENT == "NotebookLMClient"
TIMEOUT_SIGNAL == "TimeoutError"

DISCLAIMER == "+DISCLAIMER"
STARTING_MSG == "STARTING_UP_OR_CONNECTION_FAILED"
BUSY_MSG == "BUSY_OR_CANNOT_READ"
TIMEOUT_MSG == "QUERY_TIMED_OUT"
ERROR_MSG == "SYSTEM_ERROR"

RESULT_TIMEOUT == 90

\* what upstream may answer: answer_obj.answer is a string, possibly empty
Answers == {"", "ans"}
\* what client.sources.list may give, as the list of the ids
SourceLists == {<<"s1", "s2">>}
\* how far the clock of a waiting handler moves in one step
Steps == {45}

(***************************************************************************)
(* Text helpers: str.strip, str.lower, the `in` operator.                  *)
(***************************************************************************)
IsSpace(c) == c \in {" ", "\n", "\t"}

RECURSIVE LStrip(_)
LStrip(s) == IF s # << >> /\ IsSpace(Head(s)) THEN LStrip(Tail(s)) ELSE s

RECURSIVE RStrip(_)
RStrip(s) ==
    IF s # << >> /\ IsSpace(s[Len(s)]) THEN RStrip(SubSeq(s, 1, Len(s) - 1)) ELSE s

Strip(s) == RStrip(LStrip(s))

LowerChar(c) ==
    CASE c = "D" -> "d" [] c = "E" -> "e" [] c = "T" -> "t"
      [] c = "A" -> "a" [] c = "I" -> "i" [] c = "L" -> "l"
      [] OTHER -> c

Lower(s) == [i \in 1..Len(s) |-> LowerChar(s[i])]

Contains(s, sub) ==
    \E i \in 1..(Len(s) - Len(sub) + 1) : SubSeq(s, i, i + Len(sub) - 1) = sub

\* the keyword of line 112 and 117, two characters, and its English synonym
KW_ZH == <<"xiang", "xi">>
KW_EN == <<"d", "e", "t", "a", "i", "l">>

DETAILED_SUFFIX == <<" ", "ANSWER_IN_DETAIL_WITH_KEY_DATA">>
CONCISE_SUFFIX == <<" ", "ANSWER_CONCISELY">>

\* lines 112-115
Prompt(user_query) ==
    IF Contains(user_query, KW_ZH) \/ Contains(Lower(user_query), KW_EN)
    THEN user_query \o DETAILED_SUFFIX
    ELSE user_query \o CONCISE_SUFFIX

\* line 117: the mode written to the log
LoggedMode(user_query) ==
    IF Contains(user_query, KW_ZH) THEN "detailed" ELSE "concise"

\* the texts a webhook event may carry
UserTexts == { <<"q">>, <<" ", "q", "xiang", "xi">> }

\* Python truthiness of a str-or-None
Truthy(x) == x # None /\ x # ""

(***************************************************************************)
(* Initial state: the module has been imported, the background thread has  *)
(* been started, no webhook has arrived.                                   *)
(***************************************************************************)
Init ==
    /\ builtinTimeout \in BOOLEAN
    /\ initPc = "notstarted"
    /\ initFailed = FALSE
    /\ initRuns = 0
    /\ global_client = None
    /\ global_source_ids = NoneList
    /\ kaPc = "notcreated"
    /\ kaCycles = 0
    /\ refreshCalls = 0
    /\ refreshFails = 0
    /\ hPc = [m \in Msgs |-> "idle"]
    /\ user_msg = [m \in Msgs |-> << >>]
    /\ elapsed = [m \in Msgs |-> 0]
    /\ fut = [m \in Msgs |-> "none"]
    /\ futResult = [m \in Msgs |-> None]
    /\ askLog = [m \in Msgs |-> << >>]
    /\ answer = [m \in Msgs |-> None]
    /\ replies = [m \in Msgs |-> << >>]
    /\ cbResult = [m \in Msgs |-> None]

(***************************************************************************)
(* The background thread: start_background_loop.                           *)
(***************************************************************************)
InitAwaits == {"from_storage", "aenter", "list"}

\* the loop runs inside run_until_complete and inside run_forever
LoopRunning == initPc \in InitAwaits \/ kaPc # "notcreated"

\* line 90: run_until_complete starts the coroutine, which runs to line 55
InitStart ==
    /\ initPc = "notstarted"
    /\ initPc' = "from_storage"
    /\ initRuns' = initRuns + 1
    /\ UNCHANGED << builtinTimeout, initFailed, global_client, global_source_ids >>
    /\ UNCHANGED << kaVars, futVars, handlerVars >>

\* line 55 returns; line 57 awaits
InitFromStorageOk ==
    /\ initPc = "from_storage"
    /\ initPc' = "aenter"
    /\ UNCHANGED << builtinTimeout, initFailed, initRuns, global_client, global_source_ids >>
    /\ UNCHANGED << kaVars, futVars, handlerVars >>

\* line 57 returns; line 58 sets the global; line 62 awaits
InitAenterOk ==
    /\ initPc = "aenter"
    /\ global_client' = CLIENT
    /\ initPc' = "list"
    /\ UNCHANGED << builtinTimeout, initFailed, initRuns, global_source_ids >>
    /\ UNCHANGED << kaVars, futVars, handlerVars >>

\* line 62 returns; line 63 caches the ids; the coroutine ends
InitListOk ==
    /\ initPc = "list"
    /\ \E ids \in SourceLists : global_source_ids' = ids
    /\ initPc' = "done"
    /\ UNCHANGED << builtinTimeout, initFailed, initRuns, global_client >>
    /\ UNCHANGED << kaVars, futVars, handlerVars >>

\* lines 66-67: any of the three awaits raises; the error is logged
InitFail ==
    /\ initPc \in InitAwaits
    /\ initFailed' = TRUE
    /\ initPc' = "done"
    /\ UNCHANGED << builtinTimeout, initRuns, global_client, global_source_ids >>
    /\ UNCHANGED << kaVars, futVars, handlerVars >>

\* variant: the keep_alive task is created before init_notebook_client has returned
StartKeepAliveEarly ==
    /\ initPc # "notstarted"
    /\ kaPc = "notcreated"
    /\ kaPc' = "sleep"
    /\ UNCHANGED << builtinTimeout, kaCycles, refreshCalls, refreshFails >>
    /\ UNCHANGED << sessionVars, futVars, handlerVars >>

\* lines 93-96: after init returned, create the keep_alive task and run forever;
\* the task runs to its first sleep
StartKeepAlive ==
    /\ initPc = "done"
    /\ kaPc = "notcreated"
    /\ kaPc' = "sleep"
    /\ UNCHANGED << builtinTimeout, kaCycles, refreshCalls, refreshFails >>
    /\ UNCHANGED << sessionVars, futVars, handlerVars >>

(***************************************************************************)
(* keep_alive, lines 74-82.                                                *)
(***************************************************************************)
\* variant: the test of line 76 is missing
KeepAliveWakeUnguarded ==
    /\ kaPc = "sleep"
    /\ LoopRunning
    /\ kaCycles < MaxCycles
    /\ kaCycles' = kaCycles + 1
    /\ kaPc' = "refresh"
    /\ refreshCalls' = refreshCalls + 1
    /\ UNCHANGED << builtinTimeout, refreshFails >>
    /\ UNCHANGED << sessionVars, futVars, handlerVars >>

\* line 75 returns; line 76 tests the global; line 79 awaits
KeepAliveWake ==
    /\ kaPc = "sleep"
    /\ LoopRunning
    /\ kaCycles < MaxCycles
    /\ kaCycles' = kaCycles + 1
    /\ IF global_client # None
       THEN /\ kaPc' = "refresh"
            /\ refreshCalls' = refreshCalls + 1
       ELSE UNCHANGED << kaPc, refreshCalls >>
    /\ UNCHANGED << builtinTimeout, refreshFails >>
    /\ UNCHANGED << sessionVars, futVars, handlerVars >>

\* line 79 returns; back to the sleep of line 75
RefreshOk ==
    /\ kaPc = "refresh"
    /\ kaPc' = "sleep"
    /\ refreshFails' = 0
    /\ UNCHANGED << builtinTimeout, kaCycles, refreshCalls >>
    /\ UNCHANGED << sessionVars, futVars, handlerVars >>

\* variant: the exception of refresh_auth is not caught and ends the task
RefreshFailUncaught ==
    /\ kaPc = "refresh"
    /\ kaPc' = "ended"
    /\ refreshFails' = refreshFails + 1
    /\ UNCHANGED << builtinTimeout, kaCycles, refreshCalls >>
    /\ UNCHANGED << sessionVars, futVars, handlerVars >>

\* variant: a failed refresh marks the session as not live
RefreshFailRevokes ==
    /\ kaPc = "refresh"
    /\ kaPc' = "sleep"
    /\ refreshFails' = refreshFails + 1
    /\ global_client' = None
    /\ UNCHANGED << builtinTimeout, kaCycles, refreshCalls >>
    /\ UNCHANGED << initPc, initFailed, initRuns, global_source_ids >>
    /\ UNCHANGED << futVars, handlerVars >>

\* line 79 raises; lines 81-82 log it; back to the sleep of line 75
RefreshFail ==
    /\ kaPc = "refresh"
    /\ kaPc' = "sleep"
    /\ refreshFails' = refreshFails + 1
    /\ UNCHANGED << builtinTimeout, kaCycles, refreshCalls >>
    /\ UNCHANGED << sessionVars, futVars, handlerVars >>

(***************************************************************************)
(* query_notebooklm_async, lines 103-125, run by the loop as a task.       *)
(***************************************************************************)
\* variant: the test of line 107 is missing
query_notebooklm_async_unguarded(m) ==
    /\ fut[m] = "scheduled"
    /\ LoopRunning
    /\ fut' = [fut EXCEPT ![m] = "asking"]
    /\ askLog' = [askLog EXCEPT ![m] = Append(@,
                    [ prompt |-> Prompt(user_msg[m]),
                      mode |-> LoggedMode(user_msg[m]),
                      client |-> global_client,
                      source_ids |-> global_source_ids,
                      during |-> initPc ])]
    /\ UNCHANGED futResult
    /\ UNCHANGED << builtinTimeout, sessionVars, kaVars, handlerVars >>

\* lines 107-120: test the global, build the prompt, log, start chat.ask
query_notebooklm_async(m) ==
    /\ fut[m] = "scheduled"
    /\ LoopRunning
    /\ IF global_client = None
       THEN /\ fut' = [fut EXCEPT ![m] = "done"]
            /\ futResult' = [futResult EXCEPT ![m] = STARTING_MSG]
            /\ UNCHANGED askLog
       ELSE /\ fut' = [fut EXCEPT ![m] = "asking"]
            /\ askLog' = [askLog EXCEPT ![m] = Append(@,
                            [ prompt |-> Prompt(user_msg[m]),
                              mode |-> LoggedMode(user_msg[m]),
                              client |-> global_client,
                              source_ids |-> global_source_ids,
                              during |-> initPc ])]
            /\ UNCHANGED futResult
    /\ UNCHANGED << builtinTimeout, sessionVars, kaVars, handlerVars >>

\* variant: the answer is kept in one place shared by the queries in progress
AskOkShared(m) ==
    /\ fut[m] = "asking"
    /\ LoopRunning
    /\ \E a \in Answers :
         futResult' = [k \in Msgs |-> IF fut[k] = "asking" THEN a ELSE futResult[k]]
    /\ fut' = [k \in Msgs |-> IF fut[k] = "asking" THEN "done" ELSE fut[k]]
    /\ UNCHANGED << builtinTimeout, askLog, sessionVars, kaVars, handlerVars >>

\* lines 120-121: chat.ask returns; the coroutine returns answer_obj.answer
AskOk(m) ==
    /\ fut[m] = "asking"
    /\ LoopRunning
    /\ \E a \in Answers : futResult' = [futResult EXCEPT ![m] = a]
    /\ fut' = [fut EXCEPT ![m] = "done"]
    /\ UNCHANGED << builtinTimeout, askLog, sessionVars, kaVars, handlerVars >>

\* variant: the except clause returns the text of the error instead of None
AskFailReturnsError(m) ==
    /\ fut[m] = "asking"
    /\ LoopRunning
    /\ futResult' = [futResult EXCEPT ![m] = "upstream error"]
    /\ fut' = [fut EXCEPT ![m] = "done"]
    /\ UNCHANGED << builtinTimeout, askLog, sessionVars, kaVars, handlerVars >>

\* lines 122-125: chat.ask raises; the error is logged, the coroutine returns None
AskFail(m) ==
    /\ fut[m] = "asking"
    /\ LoopRunning
    /\ futResult' = [futResult EXCEPT ![m] = None]
    /\ fut' = [fut EXCEPT ![m] = "done"]
    /\ UNCHANGED << builtinTimeout, askLog, sessionVars, kaVars, handlerVars >>

(***************************************************************************)
(* callback and handle_message, lines 129-200, one thread per webhook.     *)
(***************************************************************************)
\* one call of line_bot_api.reply_message with the event's reply_token
Replied(m, text, ok) ==
    [replies EXCEPT ![m] = Append(@, [text |-> text, ok |-> ok, at |-> elapsed[m]])]

\* lines 132-143 and 154-167: the signature is checked; a valid text event
\* reaches handle_message, which submits the coroutine and starts to wait
callback(m) ==
    /\ hPc[m] = "idle"
    /\ \A k \in Msgs : k < m => hPc[k] # "idle"   \* events are numbered as they arrive
    /\ \E valid \in BOOLEAN, text \in UserTexts :
         IF valid
         THEN /\ user_msg' = [user_msg EXCEPT ![m] = Strip(text)]
              /\ fut' = [fut EXCEPT ![m] = "scheduled"]
              /\ hPc' = [hPc EXCEPT ![m] = "waiting"]
              /\ UNCHANGED cbResult
         ELSE /\ hPc' = [hPc EXCEPT ![m] = "aborted"]
              /\ cbResult' = [cbResult EXCEPT ![m] = "400"]
              /\ UNCHANGED << user_msg, fut >>
    /\ UNCHANGED << builtinTimeout, elapsed, answer, replies, futResult, askLog >>
    /\ UNCHANGED << sessionVars, kaVars >>

\* time passes for a handler blocked in future.result(timeout=90)
Tick(m) ==
    /\ hPc[m] = "waiting"
    /\ fut[m] # "done"
    /\ elapsed[m] < RESULT_TIMEOUT
    /\ \E d \in Steps :
         elapsed' = [elapsed EXCEPT ![m] =
                       IF @ + d > RESULT_TIMEOUT THEN RESULT_TIMEOUT ELSE @ + d]
    /\ UNCHANGED << builtinTimeout, hPc, user_msg, answer, replies, cbResult >>
    /\ UNCHANGED << sessionVars, kaVars, futVars >>

\* variant: every handler reads the future of the first message
FutureValueOfFirst(m) == futResult[1]

\* line 170: the value future.result returns to the handler of m
FutureValue(m) == futResult[m]

\* variant: the footer is not appended
FinalReplyBare(a) == IF Truthy(a) THEN a ELSE BUSY_MSG

\* lines 172-175
FinalReply(a) == IF Truthy(a) THEN a \o DISCLAIMER ELSE BUSY_MSG

\* lines 170-182: the future is done; build the reply and send it.  A failed
\* reply_message raises inside the try block and lands in `except Exception`
HandleResult(m) ==
    /\ hPc[m] = "waiting"
    /\ fut[m] = "done"
    /\ answer' = [answer EXCEPT ![m] = FutureValue(m)]
    /\ \E ok \in BOOLEAN :
         /\ replies' = Replied(m, FinalReply(FutureValue(m)), ok)
         /\ IF ok
            THEN /\ hPc' = [hPc EXCEPT ![m] = "done"]
                 /\ cbResult' = [cbResult EXCEPT ![m] = "OK"]
            ELSE /\ hPc' = [hPc EXCEPT ![m] = "except"]
                 /\ UNCHANGED cbResult
    /\ UNCHANGED << builtinTimeout, user_msg, elapsed >>
    /\ UNCHANGED << sessionVars, kaVars, futVars >>

\* variant: the handler cancels the future when its wait times out
TimeoutCancels(m) ==
    /\ hPc[m] = "waiting"
    /\ fut[m] # "done"
    /\ elapsed[m] = RESULT_TIMEOUT
    /\ answer' = [answer EXCEPT ![m] = TIMEOUT_SIGNAL]
    /\ fut' = [fut EXCEPT ![m] = "cancelled"]
    /\ IF builtinTimeout
       THEN /\ \E ok \in BOOLEAN : replies' = Replied(m, TIMEOUT_MSG, ok)
            /\ hPc' = [hPc EXCEPT ![m] = "done"]
            /\ cbResult' = [cbResult EXCEPT ![m] = "OK"]
       ELSE /\ hPc' = [hPc EXCEPT ![m] = "except"]
            /\ UNCHANGED << replies, cbResult >>
    /\ UNCHANGED << builtinTimeout, user_msg, elapsed, futResult, askLog >>
    /\ UNCHANGED << sessionVars, kaVars >>

\* variant: future.result is called without a timeout
TimeoutNever(m) ==
    /\ FALSE
    /\ hPc[m] = "waiting"
    /\ UNCHANGED vars

\* line 170 raises concurrent.futures.TimeoutError after 90 s.  Where that
\* class is the builtin TimeoutError, lines 184-194 send the timeout notice
\* and swallow a failure of the send; where it is not, the clause of line 184
\* does not match and `except Exception` of line 195 takes it
Timeout(m) ==
    /\ hPc[m] = "waiting"
    /\ fut[m] # "done"
    /\ elapsed[m] = RESULT_TIMEOUT
    /\ answer' = [answer EXCEPT ![m] = TIMEOUT_SIGNAL]
    /\ IF builtinTimeout
       THEN /\ \E ok \in BOOLEAN : replies' = Replied(m, TIMEOUT_MSG, ok)
            /\ hPc' = [hPc EXCEPT ![m] = "done"]
            /\ cbResult' = [cbResult EXCEPT ![m] = "OK"]
       ELSE /\ hPc' = [hPc EXCEPT ![m] = "except"]
            /\ UNCHANGED << replies, cbResult >>
    /\ UNCHANGED << builtinTimeout, user_msg, elapsed >>
    /\ UNCHANGED << sessionVars, kaVars, futVars >>

\* lines 195-200: log, send the generic error text; a failure of this send
\* leaves handle_message and callback as an exception (HTTP 500)
ExceptReply(m) ==
    /\ hPc[m] = "except"
    /\ \E ok \in BOOLEAN :
         /\ replies' = Replied(m, ERROR_MSG, ok)
         /\ IF ok
            THEN /\ hPc' = [hPc EXCEPT ![m] = "done"]
                 /\ cbResult' = [cbResult EXCEPT ![m] = "OK"]
            ELSE /\ hPc' = [hPc EXCEPT ![m] = "raised"]
                 /\ cbResult' = [cbResult EXCEPT ![m] = "500"]
    /\ UNCHANGED << builtinTimeout, user_msg, elapsed, answer >>
    /\ UNCHANGED << sessionVars, kaVars, futVars >>

(***************************************************************************)
(* The program.                                                            *)
(***************************************************************************)
Next ==
    \/ InitStart
    \/ InitFromStorageOk
    \/ InitAenterOk
    \/ InitListOk
    \/ InitFail
    \/ StartKeepAlive
    \/ KeepAliveWake
    \/ RefreshOk
    \/ RefreshFail
    \/ \E m \in Msgs : query_notebooklm_async(m)
    \/ \E m \in Msgs : AskOk(m)
    \/ \E m \in Msgs : AskFail(m)
    \/ \E m \in Msgs : callback(m)
    \/ \E m \in Msgs : Tick(m)
    \/ \E m \in Msgs : HandleResult(m)
    \/ \E m \in Msgs : Timeout(m)
    \/ \E m \in Msgs : ExceptReply(m)

Spec == Init /\ [][Next]_vars

TypeOK ==
    /\ builtinTimeout \in BOOLEAN
    /\ initPc \in {"notstarted", "done"} \cup InitAwaits
    /\ global_client \in {None, CLIENT}
    /\ global_source_ids \in {NoneList} \cup SourceLists
    /\ kaPc \in {"notcreated", "sleep", "refresh", "ended"}
    /\ \A m \in Msgs :
         /\ hPc[m] \in {"idle", "aborted", "waiting", "except", "done", "raised"}
         /\ fut[m] \in {"none", "scheduled", "asking", "done"}
         /\ elapsed[m] \in 0..RESULT_TIMEOUT

(***************************************************************************)
(* Properties.                                                             *)
(***************************************************************************)
Finished(m) == hPc[m] \in {"done", "raised"}
Asked(m) == askLog[m] # << >>
InitInProgress == initPc \in InitAwaits
RefreshInProgress == kaPc = "refresh"
AsksInProgress == {m \in Msgs : fut[m] = "asking"}

\* C1: a handler that leaves future.result gets the value its coroutine
\* returned if the future was done, and otherwise leaves only at the deadline
\* with a timeout; a timeout it observed stays a timeout whatever the
\* coroutine returns later.
ThmC1_BridgeResult ==
    [][\A m \in Msgs :
         /\ (hPc[m] = "waiting" /\ hPc'[m] # "waiting") =>
              IF fut[m] = "done"
              THEN answer'[m] = futResult[m]
              ELSE elapsed[m] = RESULT_TIMEOUT /\ answer'[m] = TIMEOUT_SIGNAL
         /\ (hPc[m] # "waiting" /\ hPc[m] # "idle") => answer'[m] = answer[m]]_vars

\* one handler timed out and its coroutine returned an answer afterwards,
\* while another handler received the answer of its own coroutine
WitC1_LateResult ==
    \E m, k \in Msgs :
        /\ answer[m] = TIMEOUT_SIGNAL /\ fut[m] = "done" /\ Truthy(futResult[m])
        /\ hPc[k] = "done" /\ answer[k] = "ans" /\ futResult[k] = "ans"

\* C2: a message whose wait timed out gets exactly one reply, the timeout text.
CexC2_TimeoutReply ==
    \A m \in Msgs :
        (answer[m] = TIMEOUT_SIGNAL /\ Finished(m)) =>
            /\ Len(replies[m]) = 1
            /\ replies[m][1].text = TIMEOUT_MSG

\* C3: a query that ran while global_client was unset is answered with the
\* starting-up text and nothing else.
CexC3_StartingReplyExact ==
    \A m \in Msgs :
        (answer[m] = STARTING_MSG /\ ~Asked(m)) => replies[m][1].text = STARTING_MSG

\* C4: a query that runs while global_client is unset completes at once with
\* the starting-up text and makes no chat.ask call; no chat.ask call is ever
\* made on an unset client.
ThmC4_NoAskWhenNotLive ==
    [][\A m \in Msgs :
         /\ (fut[m] = "scheduled" /\ fut'[m] # "scheduled" /\ global_client = None) =>
              /\ fut'[m] = "done"
              /\ futResult'[m] = STARTING_MSG
              /\ askLog'[m] = askLog[m]
         /\ \A i \in DOMAIN askLog'[m] : askLog'[m][i].client = CLIENT]_vars

\* a query short-circuited on a session that never became live
WitC4_ShortCircuit ==
    \E m \in Msgs :
        /\ initPc = "done" /\ global_client = None
        /\ fut[m] = "done" /\ futResult[m] = STARTING_MSG /\ ~Asked(m)

\* C5: every webhook with a valid signature is acknowledged with OK once its
\* handler has ended.
CexC5_AlwaysAcknowledged ==
    \A m \in Msgs : Finished(m) => cbResult[m] = "OK"

\* C6 as stated: at most one of initialize, refresh and the asks is in
\* progress at any time.
CexC6_OneOperationAtATime ==
    (IF InitInProgress THEN 1 ELSE 0) + (IF RefreshInProgress THEN 1 ELSE 0)
        + Cardinality(AsksInProgress) <= 1

\* C6 amended: initialize and refresh are never in progress together, and no
\* ask is in progress while initialize is still loading the credentials or
\* opening the session.
ThmC6_InitExcludesRefresh ==
    /\ ~(InitInProgress /\ RefreshInProgress)
    /\ \A m \in Msgs : fut[m] = "asking" => initPc \in {"list", "done"}

\* two asks and a refresh are in progress together
WitC6_Overlap ==
    /\ RefreshInProgress
    /\ Cardinality(AsksInProgress) >= 2

\* C7: init_notebook_client is started once, and every chat.ask call is made
\* after it has ended.
CexC7_NoAskBeforeInitEnds ==
    /\ initRuns <= 1
    /\ \A m \in Msgs : \A i \in DOMAIN askLog[m] : askLog[m][i].during = "done"

\* C8: once init_notebook_client has ended in its except branch, the session
\* is not live.
CexC8_FailedInitNotLive ==
    (initPc = "done" /\ initFailed) => global_client = None

\* C9: a failing refresh_auth leaves global_client set and the keep_alive
\* task at its next sleep; every sleep that ends on a live session calls
\* refresh_auth, and a query run after failures is still sent upstream.
ThmC9_RefreshFailureHarmless ==
    [][/\ refreshFails' > refreshFails =>
            /\ global_client' = CLIENT
            /\ kaPc' = "sleep"
       /\ (kaPc' # "notcreated" /\ global_client' # None) => refreshCalls' = kaCycles'
       /\ \A m \in Msgs :
            (refreshFails > 0 /\ fut[m] = "scheduled" /\ fut'[m] # "scheduled") =>
                fut'[m] = "asking"]_vars

\* after one failed refresh the next refresh is in progress, and a query
\* is being served
WitC9_RefreshAgain ==
    /\ refreshFails >= 1 /\ RefreshInProgress /\ refreshCalls >= 2
    /\ \E m \in Msgs : fut[m] = "asking"

\* C10 as stated: whatever chat.ask answered in time, the reply of line 178
\* is that answer followed by the disclaimer.
CexC10_AnswerPlusDisclaimer ==
    \A m \in Msgs :
        (Asked(m) /\ answer[m] \in Answers) =>
            replies[m][1].text = answer[m] \o DISCLAIMER

\* C10 amended: for every non-empty answer of chat.ask received in time, the
\* reply of line 178 is that answer followed by the disclaimer.
ThmC10_NonEmptyAnswerPlusDisclaimer ==
    \A m \in Msgs :
        (Asked(m) /\ answer[m] \in Answers /\ answer[m] # "") =>
            replies[m][1].text = answer[m] \o DISCLAIMER

\* a non-empty upstream answer was received and replied to
WitC10_Answered ==
    \E m \in Msgs :
        /\ Asked(m) /\ answer[m] = "ans"
        /\ Len(replies[m]) >= 1 /\ replies[m][1].ok


\* the handler of m has left future.result
Left(m) == hPc[m] \in {"except", "done", "raised"}

\* C11: an ask in progress ends with the future done and holding an answer
\* text or None, never anything else; and a handler that received None from
\* an ask that raised sends, on line 178, the busy text and only that.
ThmC11_AskFailureIsBusy ==
    [][\A m \in Msgs :
         /\ (fut[m] = "asking" /\ fut'[m] # "asking") =>
              fut'[m] = "done" /\ futResult'[m] \in Answers \cup {None}
         /\ (Left(m)' /\ Asked(m)' /\ answer'[m] = None) =>
              /\ futResult'[m] = None
              /\ replies'[m][1].text = BUSY_MSG]_vars

\* chat.ask raised for a message and its handler has replied
WitC11_AskRaised ==
    \E m \in Msgs :
        /\ Asked(m) /\ fut[m] = "done" /\ futResult[m] = None
        /\ hPc[m] = "done" /\ answer[m] = None /\ Len(replies[m]) = 1


(***************************************************************************)
(* The prompt policy of lines 111-117 on its own: a live session, one      *)
(* message submitted with any of a wider set of texts, and the step of     *)
(* query_notebooklm_async that builds the prompt and logs the mode.        *)
(***************************************************************************)
MaxPad == 1

UpperChar(c) ==
    CASE c = "d" -> "D" [] c = "e" -> "E" [] c = "t" -> "T"
      [] c = "a" -> "A" [] c = "i" -> "I" [] c = "l" -> "L"
      [] OTHER -> c

\* "detail" in every mix of upper and lower case
CaseVariants ==
    { [i \in 1..Len(KW_EN) |-> IF i \in U THEN UpperChar(KW_EN[i]) ELSE KW_EN[i]] :
        U \in SUBSET (1..Len(KW_EN)) }

\* the keywords, and near misses of them
Cores ==
    CaseVariants \cup
        { KW_ZH, <<"xi", "xiang">>, <<"xiang">>, <<"xiang", " ", "xi">>,
          <<"d", "e", "t", "a", "i">>, <<"D", "E", "T", "A", "L">>, << >> }

Pads == UNION { [1..n -> {"q", " "}] : n \in 0..MaxPad }

PromptTexts == { p \o c \o q : p \in Pads, c \in Cores, q \in Pads }

PromptInit ==
    /\ builtinTimeout \in BOOLEAN
    /\ initPc = "done"
    /\ initFailed = FALSE
    /\ initRuns = 1
    /\ global_client = CLIENT
    /\ global_source_ids \in SourceLists
    /\ kaPc = "sleep"
    /\ kaCycles = 0
    /\ refreshCalls = 0
    /\ refreshFails = 0
    /\ hPc = [m \in Msgs |-> IF m = 1 THEN "waiting" ELSE "idle"]
    /\ \E text \in PromptTexts :
         user_msg = [m \in Msgs |-> IF m = 1 THEN Strip(text) ELSE << >>]
    /\ elapsed = [m \in Msgs |-> 0]
    /\ fut = [m \in Msgs |-> IF m = 1 THEN "scheduled" ELSE "none"]
    /\ futResult = [m \in Msgs |-> None]
    /\ askLog = [m \in Msgs |-> << >>]
    /\ answer = [m \in Msgs |-> None]
    /\ replies = [m \in Msgs |-> << >>]
    /\ cbResult = [m \in Msgs |-> None]

PromptNext == \E m \in Msgs : query_notebooklm_async(m)

SpecPrompt == PromptInit /\ [][PromptNext]_vars

\* C12: a text that contains the keyword, or "detail" in any letter case,
\* gets the detailed prompt and the mode "detailed"; every other text gets the
\* concise prompt and the mode "concise".
CexC12_PromptAndModeAgree ==
    \A m \in Msgs : \A i \in DOMAIN askLog[m] :
        LET t == user_msg[m]
            r == askLog[m][i]
        IN  IF Contains(t, KW_ZH) \/ Contains(Lower(t), KW_EN)
            THEN r.prompt = t \o DETAILED_SUFFIX /\ r.mode = "detailed"
            ELSE r.prompt = t \o CONCISE_SUFFIX /\ r.mode = "concise"


\* the comment of line 169: the reply token of an event expires after about
\* 60 seconds
REPLY_TOKEN_VALIDITY == 60

\* C13: every reply_message call is made while the reply token of its event
\* is still valid, the timeout notice included.
CexC13_RepliesWithinTokenValidity ==
    \A m \in Msgs : \A i \in DOMAIN replies[m] :
        replies[m][i].at < REPLY_TOKEN_VALIDITY

\* the session as the state machine of the claim sees it: where
\* init_notebook_client is, and after it whether global_client is set
SessionState ==
    CASE initPc = "notstarted" -> "Uninitialized"
      [] initPc \in InitAwaits -> "Initializing"
      [] initPc = "done" /\ global_client # None -> "Live"
      [] OTHER -> "Failed"

\* C14: the session moves Uninitialized -> Initializing -> Live or Failed
\* and makes no other move; init_notebook_client is started at most once; a
\* failed refresh leaves the session Live.
ThmC14_SessionLifecycle ==
    [][/\ \/ SessionState' = SessionState
          \/ SessionState = "Uninitialized" /\ SessionState' = "Initializing"
          \/ SessionState = "Initializing" /\ SessionState' \in {"Live", "Failed"}
       /\ initRuns' <= 1
       /\ refreshFails' > refreshFails =>
            SessionState = "Live" /\ SessionState' = "Live"]_vars

\* a session that is Live after refresh failures and has served a query
WitC14_LiveAfterFailures ==
    /\ SessionState = "Live"
    /\ refreshFails >= 2
    /\ \E m \in Msgs : Asked(m) /\ askLog[m][1].during = "done" /\ fut[m] = "done"


\* C15: the step in which a handler times out changes nothing of the
\* session, of keep_alive, of any future (its own included: the ask goes on)
\* or of any other handler; afterwards the future of the timed-out message
\* can only complete, and what it returns reaches no reply.
ThmC15_TimeoutFrame ==
    [][\A m \in Msgs :
         /\ (answer[m] # TIMEOUT_SIGNAL /\ answer'[m] = TIMEOUT_SIGNAL) =>
              /\ UNCHANGED << sessionVars, kaVars, futVars >>
              /\ \A k \in Msgs \ {m} :
                   /\ hPc'[k] = hPc[k] /\ elapsed'[k] = elapsed[k]
                   /\ answer'[k] = answer[k] /\ replies'[k] = replies[k]
         /\ (answer[m] = TIMEOUT_SIGNAL /\ fut'[m] # fut[m]) =>
              fut'[m] \in {"asking", "done"}
         /\ answer'[m] = TIMEOUT_SIGNAL =>
              \A i \in DOMAIN replies'[m] :
                  replies'[m][i].text \in {TIMEOUT_MSG, ERROR_MSG}]_vars

\* a handler timed out and finished, its ask completed afterwards with an
\* answer, and another query is still being asked
WitC15_AbandonedAskCompletes ==
    \E m, k \in Msgs :
        /\ m # k
        /\ answer[m] = TIMEOUT_SIGNAL /\ Finished(m)
        /\ Asked(m) /\ fut[m] = "done" /\ futResult[m] = "ans"
        /\ hPc[k] = "waiting" /\ fut[k] = "asking"

\* C16: the keep_alive task exists only once init_notebook_client has ended;
\* refresh_auth is in progress only on a set client; there are never more
\* refresh_auth calls than finished sleeps; a session that is not live has
\* had none.
ThmC16_RefreshOnlyWhenLive ==
    /\ kaPc # "notcreated" => initPc = "done"
    /\ RefreshInProgress => global_client = CLIENT
    /\ refreshCalls <= kaCycles
    /\ global_client = None => refreshCalls = 0

\* the second refresh of a live session is in progress
WitC16_Refreshing ==
    /\ RefreshInProgress /\ initPc = "done" /\ global_client = CLIENT
    /\ kaCycles = 2 /\ refreshCalls = 2

\* C17: a step that changes the future of one message changes no other
\* future; the ask made for a message carries the prompt of that message's
\* text; a handler that did not time out holds the result of its own future
\* and its reply of line 178 is built from that result.
ThmC17_OwnResultOnly ==
    [][\A m \in Msgs :
         /\ (fut'[m] # fut[m] \/ futResult'[m] # futResult[m]) =>
              \A k \in Msgs \ {m} : fut'[k] = fut[k] /\ futResult'[k] = futResult[k]
         /\ \A i \in DOMAIN askLog'[m] : askLog'[m][i].prompt = Prompt(user_msg'[m])
         /\ (Left(m)' /\ answer'[m] # TIMEOUT_SIGNAL) =>
              /\ answer'[m] = futResult'[m]
              /\ replies'[m][1].text =
                    IF Truthy(futResult'[m]) THEN futResult'[m] \o DISCLAIMER
                    ELSE BUSY_MSG]_vars

\* two messages with different texts were both asked, one answered and one
\* failed, and both handlers have replied
WitC17_TwoOutcomes ==
    /\ NMsgs >= 2
    /\ Asked(1) /\ Asked(2) /\ user_msg[1] # user_msg[2]
    /\ hPc[1] = "done" /\ hPc[2] = "done"
    /\ answer[1] = None /\ answer[2] = "ans"

\* C19: reply_message is called at most once for a message.
CexC19_AtMostOneReply ==
    \A m \in Msgs : Len(replies[m]) <= 1


(***************************************************************************)
(* Scheduling: a handler thread that can take a step takes it, and the     *)
(* clock of a waiting handler advances.  Nothing is assumed of the         *)
(* upstream service or of the loop: init, refresh and ask may never end.   *)
(***************************************************************************)
FairSpec ==
    /\ Spec
    /\ \A m \in Msgs :
         /\ WF_vars(Tick(m))
         /\ WF_vars(HandleResult(m))
         /\ WF_vars(Timeout(m))
         /\ WF_vars(ExceptReply(m))

\* what is left for the handler of m to do: the seconds it may still wait,
\* then its reply, then the reply of its except clause
HandlerRank(m) ==
    CASE hPc[m] = "idle" -> RESULT_TIMEOUT + 3
      [] hPc[m] = "waiting" -> (RESULT_TIMEOUT - elapsed[m]) + 2
      [] hPc[m] = "except" -> 1
      [] OTHER -> 0

\* C18: a handler that has not finished can always take a step (its clock
\* advances, its result is there, or its deadline has come; in the except
\* clause the reply is made), every step of a handler brings it closer to
\* its end, its wait never exceeds the deadline, and a handler that has
\* finished has called reply_message at least once.  So under the scheduling
\* of FairSpec every message finishes, whatever the loop and upstream do.
ThmC18_HandlerAlwaysProgresses ==
    /\ [](\A m \in Msgs :
            /\ hPc[m] = "waiting" =>
                 /\ elapsed[m] <= RESULT_TIMEOUT
                 /\ ENABLED (Tick(m) \/ HandleResult(m) \/ Timeout(m))
            /\ hPc[m] = "except" => ENABLED ExceptReply(m)
            /\ Finished(m) => Len(replies[m]) >= 1)
    /\ [][\A m \in Msgs :
            (hPc'[m] # hPc[m] \/ elapsed'[m] # elapsed[m]) =>
                HandlerRank(m)' < HandlerRank(m)]_vars

\* the same as a property of the behaviours of FairSpec
LiveC18_EveryMessageFinishes ==
    \A m \in Msgs : (hPc[m] = "waiting") ~> (Finished(m) /\ Len(replies[m]) >= 1)

\* a handler finished by its timeout while its query never ran, on a
\* session that never became live
WitC18_FinishedWithoutUpstream ==
    \E m \in Msgs :
        /\ Finished(m) /\ Len(replies[m]) >= 1
        /\ answer[m] = TIMEOUT_SIGNAL /\ fut[m] # "done"
        /\ global_client = None

====
